---- MODULE Spec2Model ----
(***************************************************************************)
(* Phototype frontend service (src/frontend-service/app.py): the Flask     *)
(* handlers over the two folders uploads/ and json/.                       *)
(*                                                                         *)
(* A file name is a sequence of one-character strings, so that the string  *)
(* operations of the code (rsplit, lower, endswith, replace, and           *)
(* werkzeug's secure_filename) are computed character by character.        *)
(* A folder is a function from the names in it to the files' contents.     *)
(***************************************************************************)
EXTENDS Integers, Sequences, FiniteSets, TLC

VARIABLES
    uploads,    \* the folder uploads/
    jsonDir,    \* the folder json/
    request,    \* the request served last
    response,   \* the answer to it
    failed,     \* the I/O call that failed while it was served, or "none"
    processed   \* history: per secured filename, the first upload processed

vars == <<uploads, jsonDir, request, response, failed, processed>>

-----------------------------------------------------------------------------
(* Bounds of the model.                                                    *)

\* datetime.now() reads a clock value in 0..MaxClock; two ticks make a day
MaxClock == 0

-----------------------------------------------------------------------------
(* Configuration, app.py lines 12-17.                                      *)

UPLOAD_FOLDER == "uploads"
JSON_FOLDER == "json"
ALLOWED_EXTENSIONS == {<<"p", "d", "f">>}
MAX_FILE_SIZE == 16 * 1024 * 1024

-----------------------------------------------------------------------------
(* Python string operations on character sequences.                        *)

LowerChar(c) ==
    CASE c = "P" -> "p" [] c = "D" -> "d" [] c = "F" -> "f" [] c = "A" -> "a"
      [] OTHER -> c

UpperChar(c) ==
    CASE c = "p" -> "P" [] c = "d" -> "D" [] c = "f" -> "F" [] c = "a" -> "A"
      [] c = "b" -> "B" [] c = "c" -> "C" [] c = "e" -> "E"
      [] OTHER -> c

\* str.lower()
Lower(s) == [i \in 1..Len(s) |-> LowerChar(s[i])]

\* str.upper()
Upper(s) == [i \in 1..Len(s) |-> UpperChar(s[i])]

\* position of the last c in s, 0 when there is none
LastIndex(s, c) ==
    IF \E i \in 1..Len(s) : s[i] = c
    THEN CHOOSE i \in 1..Len(s) : s[i] = c /\ \A j \in (i+1)..Len(s) : s[j] # c
    ELSE 0

\* the defect of leaving the suffix on
RsplitHead_keeps_suffix(s) == s

\* s.rsplit('.', 1)[0]: what precedes the last dot, the whole of s without one
RsplitHead(s) ==
    IF LastIndex(s, ".") = 0 THEN s ELSE SubSeq(s, 1, LastIndex(s, ".") - 1)

\* s.rsplit('.', 1)[1]: what follows the last dot (used only when s has a dot)
RsplitTail(s) == SubSeq(s, LastIndex(s, ".") + 1, Len(s))

\* s.startswith(p) at position i
MatchAt(s, p, i) ==
    /\ i + Len(p) - 1 <= Len(s)
    /\ \A k \in 1..Len(p) : s[i + k - 1] = p[k]

\* s.endswith(p)
EndsWith(s, p) == Len(s) >= Len(p) /\ MatchAt(s, p, Len(s) - Len(p) + 1)

\* s.replace(old, new): every non-overlapping occurrence, left to right
RECURSIVE ReplaceFrom(_, _, _, _)
ReplaceFrom(s, old, new, i) ==
    IF i > Len(s) THEN <<>>
    ELSE IF MatchAt(s, old, i)
         THEN new \o ReplaceFrom(s, old, new, i + Len(old))
         ELSE <<s[i]>> \o ReplaceFrom(s, old, new, i + 1)

Replace(s, old, new) == ReplaceFrom(s, old, new, 1)

\* s.strip(chars)
RECURSIVE LStrip(_, _)
LStrip(s, chars) ==
    IF s # <<>> /\ Head(s) \in chars THEN LStrip(Tail(s), chars) ELSE s

RECURSIVE RStrip(_, _)
RStrip(s, chars) ==
    IF s # <<>> /\ s[Len(s)] \in chars
    THEN RStrip(SubSeq(s, 1, Len(s) - 1), chars)
    ELSE s

Strip(s, chars) == RStrip(LStrip(s, chars), chars)

DotPdf == <<".", "p", "d", "f">>
DotJson == <<".", "j", "s", "o", "n">>

-----------------------------------------------------------------------------
(* werkzeug.utils.secure_filename, imported at app.py line 9.              *)

NonAscii == {"ß"}
Whitespace == {" "}
PathSeps == {"/"}
\* the characters [A-Za-z0-9_.-] keeps, among those the model uses
AsciiKept == {"a", "b", "p", "d", "f", "P", "D", "F", "j", "s", "o", "n",
              "t", "x", "_", ".", "-"}

\* "_".join(s.split()): runs of whitespace become one "_", none at the ends
RECURSIVE JoinSplit(_, _)
JoinSplit(s, started) ==
    IF s = <<>> THEN <<>>
    ELSE IF Head(s) \in Whitespace
         THEN LET rest == LStrip(s, Whitespace)
              IN  IF started /\ rest # <<>>
                  THEN <<"_">> \o JoinSplit(rest, TRUE)
                  ELSE JoinSplit(rest, started)
         ELSE <<Head(s)>> \o JoinSplit(Tail(s), TRUE)

secure_filename(filename) ==
    LET ascii == SelectSeq(filename, LAMBDA c : c \notin NonAscii)
        nosep == [i \in 1..Len(ascii) |->
                     IF ascii[i] \in PathSeps THEN " " ELSE ascii[i]]
        joined == JoinSplit(nosep, FALSE)
        kept == SelectSeq(joined, LAMBDA c : c \in AsciiKept)
    IN  Strip(kept, {".", "_"})

-----------------------------------------------------------------------------
(* app.py lines 19-21.                                                     *)

allowed_file(filename) ==
    /\ \E i \in 1..Len(filename) : filename[i] = "."
    /\ Lower(RsplitTail(filename)) \in ALLOWED_EXTENSIONS

-----------------------------------------------------------------------------
(* The two folders.  uploads/ maps a name to the PDF stored under it,      *)
(* json/ maps a name to the file's text: <<doc>> is the text json.dump     *)
(* writes for doc, <<>> is an empty (truncated) file, which json.load      *)
(* rejects.                                                                *)

EmptyDir == [n \in {} |-> <<>>]

Put(dir, name, content) ==
    [n \in DOMAIN dir \cup {name} |-> IF n = name THEN content ELSE dir[n]]

Remove(dir, name) == [n \in DOMAIN dir \ {name} |-> dir[n]]

\* json.dump(doc, f) followed by closing f
json_dump(doc) == <<doc>>

\* json.load(f) succeeds exactly on the text of one document
json_loadable(text) == Len(text) = 1

json_load(text) == text[1]

-----------------------------------------------------------------------------
(* Inputs.                                                                 *)

\* the PDFs a client may send: an identity of the bytes and their length
PdfContents ==
    { [id |-> "A", length |-> 1],
      [id |-> "B", length |-> 2],
      [id |-> "C", length |-> MAX_FILE_SIZE + 1] }

\* the file names a client may send with the 'file' part
ClientFilenames ==
    { <<>>,
      <<"a">>,
      <<"a", ".", "t", "x", "t">>,
      <<"a", ".", "p", "d", "f">>,
      <<".", ".", "/", "a", ".", "p", "d", "f">> }

\* request.files of an upload: no 'file' part, or one with a name and bytes
NoParts ==
    [k \in {} |-> [filename |-> <<>>, content |-> [id |-> "", length |-> 0]]]

FilePart(fn, c) == [k \in {"file"} |-> [filename |-> fn, content |-> c]]

UploadForms ==
    { NoParts }
    \cup { FilePart(fn, c) : fn \in ClientFilenames, c \in PdfContents }
    \cup { FilePart(<<"ß", ".", "P", "D", "F">>,
                    [id |-> "C", length |-> MAX_FILE_SIZE + 1]) }

\* str(uuid.uuid4()), the first ten characters of it
Uuid4s ==
    { <<"1", "a", "2", "b", "3", "c", "4", "d", "-", "5">>,
      <<"9", "f", "8", "e", "7", "d", "6", "c", "-", "0">> }

\* what the surroundings do to one upload: which I/O call fails, the uuid
\* drawn, the two clock readings of process_pdf_to_json, and whether
\* werkzeug enforces MAX_CONTENT_LENGTH on the request (it does on every
\* request that states its Content-Length; a chunked request escapes it
\* under the older releases)
UploadFaults == {"none", "save", "open", "dump", "remove"}

UploadEnvs ==
    { e \in [fault : UploadFaults, uuid4 : Uuid4s,
             now1 : 0..MaxClock, now2 : 0..MaxClock, enforced : BOOLEAN] :
        e.now1 <= e.now2 }

\* os.path.join(folder, name)
path_join(folder, name) == <<folder, name>>

\* os.path.exists(os.path.join(folder, name)): the folder itself for an
\* empty name, the file otherwise
path_exists(folder, dir, name) == name = <<>> \/ name \in DOMAIN dir

\* the files of uploads/ by path, as process_pdf_to_json could open them
DiskOf(dir) ==
    [p \in {path_join(UPLOAD_FOLDER, n) : n \in DOMAIN dir} |-> dir[p[2]]]

-----------------------------------------------------------------------------
(* app.py lines 23-74.  env carries what the function draws from outside   *)
(* its arguments: the disk, uuid.uuid4() and datetime.now().               *)

\* datetime.strftime("%d %B %Y"): the day of the reading
strftime_day(t) == <<"%d %B %Y", t \div 2>>

\* datetime.isoformat(): the reading itself
isoformat(t) == <<"iso", t>>

\* the defect of putting what the PDF at pdf_path holds into the text
process_pdf_to_json_reads_pdf(pdf_path, output_filename, env) ==
    [ fields |->
        [ contract_number |-> <<"AUTO_", Upper(SubSeq(env.uuid4, 1, 8))>>,
          date |-> strftime_day(env.now1),
          seller |->
            [ name |-> "Extracted Company Name",
              location |-> "Extracted Location",
              representative |-> "Extracted Representative",
              authority |-> "Extracted Authority Document" ],
          buyer |->
            [ name |-> "Extracted Buyer Name",
              location |-> "Extracted Buyer Location",
              director |-> "Extracted Director Name",
              authority |-> "Extracted Buyer Authority" ],
          subject_of_contract |->
            [ description |-> "Extracted contract description from PDF",
              quantity |-> "Extracted quantity",
              unit |-> "Extracted unit",
              origin_country |-> "Extracted Origin Country" ],
          price_and_total_cost |->
            [ price |-> "Pricing method extracted from PDF",
              currency |-> "USD",
              total_cost |-> "Amount extracted from PDF" ],
          delivery_documents |->
            [ deadline |-> "Deadline extracted from PDF",
              required_documents |->
                <<"Invoice", "Bill of Lading", "Certificate of Origin",
                  "Packing List">> ] ],
      text |-> <<"Full text extracted from PDF file: ", output_filename,
                 env.disk[pdf_path].id>>,
      metadata |->
        [ processed_date |-> isoformat(env.now2),
          source_file |-> output_filename,
          processing_method |-> "Automated PDF extraction" ] ]

process_pdf_to_json(pdf_path, output_filename, env) ==
    [ fields |->
        [ contract_number |-> <<"AUTO_", Upper(SubSeq(env.uuid4, 1, 8))>>,
          date |-> strftime_day(env.now1),
          seller |->
            [ name |-> "Extracted Company Name",
              location |-> "Extracted Location",
              representative |-> "Extracted Representative",
              authority |-> "Extracted Authority Document" ],
          buyer |->
            [ name |-> "Extracted Buyer Name",
              location |-> "Extracted Buyer Location",
              director |-> "Extracted Director Name",
              authority |-> "Extracted Buyer Authority" ],
          subject_of_contract |->
            [ description |-> "Extracted contract description from PDF",
              quantity |-> "Extracted quantity",
              unit |-> "Extracted unit",
              origin_country |-> "Extracted Origin Country" ],
          price_and_total_cost |->
            [ price |-> "Pricing method extracted from PDF",
              currency |-> "USD",
              total_cost |-> "Amount extracted from PDF" ],
          delivery_documents |->
            [ deadline |-> "Deadline extracted from PDF",
              required_documents |->
                <<"Invoice", "Bill of Lading", "Certificate of Origin",
                  "Packing List">> ] ],
      text |-> <<"Full text extracted from PDF file: ", output_filename>>,
      metadata |->
        [ processed_date |-> isoformat(env.now2),
          source_file |-> output_filename,
          processing_method |-> "Automated PDF extraction" ] ]

-----------------------------------------------------------------------------
(* What a handler gives back: the HTTP answer, the folders it leaves and   *)
(* the I/O call that failed on the way ("none" when none was reached or    *)
(* none failed).                                                           *)

Reply(status, body, up, js, io) ==
    [status |-> status, body |-> body, uploads |-> up, jsonDir |-> js,
     failed |-> io]

\* str(e) of the OSError an I/O call raises
OSErrorText == "[Errno 28] No space left on device"

-----------------------------------------------------------------------------
(* app.py lines 214-274.                                                   *)

\* the defect of restoring the folders as they were before the request
on_exception_rolls_back(up, js, io) ==
    Reply(500,
          [success |-> FALSE, error |-> "Processing failed: " \o OSErrorText],
          uploads, jsonDir, io)

\* lines 273-274: the except clause answers 500 and undoes nothing, so the
\* folders stay as the failed call left them
on_exception(up, js, io) ==
    Reply(500,
          [success |-> FALSE, error |-> "Processing failed: " \o OSErrorText],
          up, js, io)

\* the length of the multipart body: the files and the framing around them
content_length(files) ==
    IF "file" \in DOMAIN files
    THEN files["file"].content.length + Len(files["file"].filename) + 1
    ELSE 1

\* line 83 and line 218: request.files parses the body, and werkzeug
\* aborts with RequestEntityTooLarge when the body exceeds
\* MAX_CONTENT_LENGTH; the handler does not catch it and Flask answers 413
request_entity_too_large(files, env) ==
    env.enforced /\ content_length(files) > MAX_FILE_SIZE

upload_pdf(files, env) ==
    IF request_entity_too_large(files, env)
    THEN Reply(413, [html |-> "413 Request Entity Too Large"],
               uploads, jsonDir, "none")
    ELSE IF "file" \notin DOMAIN files
    THEN Reply(400, [success |-> FALSE, error |-> "No file provided"],
               uploads, jsonDir, "none")
    ELSE
    LET file == files["file"] IN
    IF file.filename = <<>>
    THEN Reply(400, [success |-> FALSE, error |-> "No file selected"],
               uploads, jsonDir, "none")
    ELSE IF ~allowed_file(file.filename)
    THEN Reply(400, [success |-> FALSE, error |-> "Only PDF files are allowed"],
               uploads, jsonDir, "none")
    ELSE IF file.content.length > MAX_FILE_SIZE
    THEN Reply(400, [success |-> FALSE,
                     error |-> "File too large. Maximum size is 16MB"],
               uploads, jsonDir, "none")
    ELSE IF file.filename = <<>>
    THEN Reply(400, [success |-> FALSE, error |-> "Invalid filename"],
               uploads, jsonDir, "none")
    ELSE
    LET filename == secure_filename(file.filename)
        upload_path == path_join(UPLOAD_FOLDER, filename)
    IN
    IF env.fault = "save"
    THEN on_exception(uploads, jsonDir, "save")
    ELSE
    LET saved == Put(uploads, filename, file.content)
        json_filename == RsplitHead(filename) \o DotJson
        json_data ==
            process_pdf_to_json(upload_path, filename,
                [disk |-> DiskOf(saved), uuid4 |-> env.uuid4,
                 now1 |-> env.now1, now2 |-> env.now2])
    IN
    IF env.fault = "open"
    THEN on_exception(saved, jsonDir, "open")
    ELSE IF env.fault = "dump"
    THEN on_exception(saved, Put(jsonDir, json_filename, <<>>), "dump")
    ELSE IF env.fault = "remove"
    THEN Reply(200,
               [success |-> TRUE, message |-> "PDF processed successfully",
                filename |-> json_filename],
               saved, Put(jsonDir, json_filename, json_dump(json_data)),
               "remove")
    ELSE Reply(200,
               [success |-> TRUE, message |-> "PDF processed successfully",
                filename |-> json_filename],
               Remove(saved, filename),
               Put(jsonDir, json_filename, json_dump(json_data)), "none")

-----------------------------------------------------------------------------
(* app.py lines 89-99.  json/ exists from create_app on (line 87) and no   *)
(* handler removes it; os.listdir gives the names in no particular order,  *)
(* so the list is modelled as the set of its elements.                     *)

index ==
    Reply(200,
          [template |-> "index.html",
           json_files |-> {filename \in DOMAIN jsonDir :
                              EndsWith(filename, DotJson)}],
          uploads, jsonDir, "none")

-----------------------------------------------------------------------------
(* app.py lines 155-177.  stat_fails: the names whose os.stat raises.      *)

\* the defect of skipping a file whose os.stat raises
list_json_drops_unstatted(stat_fails) ==
    Reply(200,
          [success |-> TRUE,
           files |-> {filename \in DOMAIN jsonDir :
                         EndsWith(filename, DotJson)} \ stat_fails],
          uploads, jsonDir,
          IF stat_fails \cap DOMAIN jsonDir = {} THEN "none" ELSE "stat")

list_json(stat_fails) ==
    LET listed == {filename \in DOMAIN jsonDir : EndsWith(filename, DotJson)}
        json_files ==
            { IF filename \in stat_fails
              THEN [filename |-> filename]
              ELSE [filename |-> filename,
                    size |-> Len(jsonDir[filename]),
                    modified |-> "st_mtime"] : filename \in listed }
    IN  Reply(200,
              [success |-> TRUE, files |-> {f.filename : f \in json_files}],
              uploads, jsonDir,
              IF stat_fails \cap listed = {} THEN "none" ELSE "stat")

-----------------------------------------------------------------------------
(* services.pdf_excerpt_extractor.extract_pdf_excerpts, imported at line   *)
(* 10 and absent from the sources: it reads the PDF and the fields and     *)
(* either returns the excerpts or raises; it writes nothing.               *)

extract_pdf_excerpts(pdf_path, json_data) ==
    [document |-> pdf_path, fields |-> json_data.fields]

\* the file names a client may put in the URL of a GET request
UrlFilenames ==
    { <<"a", ".", "p", "d", "f">>,
      <<"P", "D", "F">>,
      <<"b", ".", "p", "d", "f">>,
      <<"_">> }

\* what may fail while excerpts are served: opening the JSON file, or the
\* extractor
ExcerptFaults == {"none", "open", "extract"}

-----------------------------------------------------------------------------
(* app.py lines 179-212.                                                   *)

excerpts_failed(text, up, js, io) ==
    Reply(500, [error |-> "Failed to extract excerpts: " \o text], up, js, io)

\* the defect of looking for the PDF before the JSON file
get_pdf_excerpts_pdf_first(url_filename, fault) ==
    LET filename == secure_filename(url_filename)
        json_filename == Replace(filename, DotPdf, DotJson)
        pdf_path == path_join(UPLOAD_FOLDER, filename)
    IN
    IF ~path_exists(UPLOAD_FOLDER, uploads, filename)
    THEN Reply(404, [error |-> "PDF file not found"], uploads, jsonDir, "none")
    ELSE IF ~path_exists(JSON_FOLDER, jsonDir, json_filename)
    THEN Reply(404, [error |-> "JSON file not found"], uploads, jsonDir, "none")
    ELSE IF json_filename = <<>>
    THEN excerpts_failed("[Errno 21] Is a directory: 'json/'",
                         uploads, jsonDir, "open")
    ELSE IF fault = "open"
    THEN excerpts_failed("[Errno 13] Permission denied", uploads, jsonDir,
                         "open")
    ELSE IF ~json_loadable(jsonDir[json_filename])
    THEN excerpts_failed("Expecting value: line 1 column 1 (char 0)",
                         uploads, jsonDir, "load")
    ELSE IF fault = "extract"
    THEN excerpts_failed("extract_pdf_excerpts raised", uploads, jsonDir,
                         "extract")
    ELSE Reply(200,
               [success |-> TRUE,
                excerpts |-> extract_pdf_excerpts(pdf_path,
                                 json_load(jsonDir[json_filename])),
                filename |-> filename],
               uploads, jsonDir, "none")

get_pdf_excerpts(url_filename, fault) ==
    LET filename == secure_filename(url_filename)
        json_filename == Replace(filename, DotPdf, DotJson)
        pdf_path == path_join(UPLOAD_FOLDER, filename)
    IN
    IF ~path_exists(JSON_FOLDER, jsonDir, json_filename)
    THEN Reply(404, [error |-> "JSON file not found"], uploads, jsonDir, "none")
    ELSE IF json_filename = <<>>
    THEN excerpts_failed("[Errno 21] Is a directory: 'json/'",
                         uploads, jsonDir, "open")
    ELSE IF fault = "open"
    THEN excerpts_failed("[Errno 13] Permission denied", uploads, jsonDir,
                         "open")
    ELSE IF ~json_loadable(jsonDir[json_filename])
    THEN excerpts_failed("Expecting value: line 1 column 1 (char 0)",
                         uploads, jsonDir, "load")
    ELSE IF ~path_exists(UPLOAD_FOLDER, uploads, filename)
    THEN Reply(404, [error |-> "PDF file not found"], uploads, jsonDir, "none")
    ELSE IF fault = "extract"
    THEN excerpts_failed("extract_pdf_excerpts raised", uploads, jsonDir,
                         "extract")
    ELSE Reply(200,
               [success |-> TRUE,
                excerpts |-> extract_pdf_excerpts(pdf_path,
                                 json_load(jsonDir[json_filename])),
                filename |-> filename],
               uploads, jsonDir, "none")

-----------------------------------------------------------------------------
(* app.py lines 276-291.  A JSON value is its type and its text.           *)

JNull == [t |-> "null", v |-> "null"]
JStr(v) == [t |-> "str", v |-> v]
JFalse == [t |-> "bool", v |-> "false"]

\* Python truthiness of a JSON value, as all([...]) tests it
Truthy(j) ==
    CASE j.t = "null" -> FALSE
      [] j.t = "str" -> j.v # ""
      [] j.t = "num" -> j.v # "0"
      [] j.t = "bool" -> j.v = "true"

\* dict.get(key)
get(data, key) == IF key \in DOMAIN data THEN data[key] ELSE JNull

ValidationKeys == {"filename", "field_path", "status"}

\* the bodies a client may post: something request.get_json() rejects, a
\* JSON value that is no object, or an object with some of the keys
ValidationPayloads ==
    { [kind |-> k, data |-> [x \in {} |-> JNull]] : k \in {"not_json", "null"} }
    \cup
    { [kind |-> "object", data |-> d] :
        d \in UNION { [ks -> {JStr(""), JStr("approved")}] :
                        ks \in SUBSET ValidationKeys } }
    \cup
    { [kind |-> "object",
       data |-> [x \in ValidationKeys |->
                    IF x = "status" THEN JFalse ELSE JStr("approved")]] }

\* the defect of keeping a record of the validation in json/
save_validation_persists(payload) ==
    IF payload.kind = "not_json"
    THEN Reply(500,
               [error |-> "415 Unsupported Media Type: Did not attempt to load JSON data because the request Content-Type was not 'application/json'."],
               uploads, jsonDir, "none")
    ELSE IF payload.kind # "object"
    THEN Reply(500,
               [error |-> "'NoneType' object has no attribute 'get'"],
               uploads, jsonDir, "none")
    ELSE
    LET data == payload.data
        filename == get(data, "filename")
        field_path == get(data, "field_path")
        status == get(data, "status")
    IN
    IF ~(Truthy(filename) /\ Truthy(field_path) /\ Truthy(status))
    THEN Reply(400, [error |-> "Missing required fields"], uploads, jsonDir,
               "none")
    ELSE Reply(200, [success |-> TRUE, message |-> "Validation saved"],
               uploads,
               Put(jsonDir, <<"v", "a", "l", "i", "d", "a", "t", "i", "o", "n">>
                            \o DotJson, <<>>),
               "none")

save_validation(payload) ==
    IF payload.kind = "not_json"
    THEN Reply(500,
               [error |-> "415 Unsupported Media Type: Did not attempt to load JSON data because the request Content-Type was not 'application/json'."],
               uploads, jsonDir, "none")
    ELSE IF payload.kind # "object"
    THEN Reply(500,
               [error |-> "'NoneType' object has no attribute 'get'"],
               uploads, jsonDir, "none")
    ELSE
    LET data == payload.data
        filename == get(data, "filename")
        field_path == get(data, "field_path")
        status == get(data, "status")
    IN
    IF ~(Truthy(filename) /\ Truthy(field_path) /\ Truthy(status))
    THEN Reply(400, [error |-> "Missing required fields"], uploads, jsonDir,
               "none")
    ELSE Reply(200, [success |-> TRUE, message |-> "Validation saved"],
               uploads, jsonDir, "none")

-----------------------------------------------------------------------------
(* The service.  create_app (lines 76-87) makes the two folders; json/ is  *)
(* the repository's folder and may hold a file that is no JSON document.   *)

GitKeep == <<".", "g", "i", "t", "k", "e", "e", "p">>

Init ==
    /\ uploads = EmptyDir
    /\ jsonDir \in {EmptyDir, Put(EmptyDir, GitKeep, <<>>)}
    /\ request = [handler |-> "create_app"]
    /\ response = [handler |-> "create_app", status |-> 0,
                   body |-> [success |-> TRUE]]
    /\ failed = "none"
    /\ processed = EmptyDir

\* one request served: the handler's answer and the folders it leaves
Serve(handler, args, r) ==
    /\ request' = [handler |-> handler, args |-> args]
    /\ response' = [handler |-> handler, status |-> r.status, body |-> r.body]
    /\ failed' = r.failed
    /\ uploads' = r.uploads
    /\ jsonDir' = r.jsonDir

\* the document an accepted upload wrote, without the values generated per
\* call (contract_number, date, processed_date)
Placeholders(doc) ==
    [doc EXCEPT !.fields.contract_number = <<>>,
                !.fields.date = <<>>,
                !.metadata.processed_date = <<>>]

UploadPdf ==
    \E files \in UploadForms :
        \E r \in {upload_pdf(files, env) : env \in UploadEnvs} :
            LET name == secure_filename(files["file"].filename)
            IN  /\ Serve("upload_pdf", files, r)
                /\ processed' =
                     IF r.status = 200 /\ name \notin DOMAIN processed
                     THEN Put(processed, name,
                              [pdf |-> files["file"].content.id,
                               json |-> r.body.filename,
                               doc |-> Placeholders(
                                   json_load(r.jsonDir[r.body.filename]))])
                     ELSE processed

Index ==
    /\ Serve("index", <<>>, index)
    /\ UNCHANGED processed

ListJson ==
    \E r \in {list_json(stat_fails) : stat_fails \in SUBSET DOMAIN jsonDir} :
        /\ Serve("list_json", <<>>, r)
        /\ UNCHANGED processed

GetPdfExcerpts ==
    \E url_filename \in UrlFilenames, fault \in ExcerptFaults :
        /\ Serve("get_pdf_excerpts", url_filename,
                 get_pdf_excerpts(url_filename, fault))
        /\ UNCHANGED processed

SaveValidation ==
    \E payload \in ValidationPayloads :
        /\ Serve("save_validation", payload, save_validation(payload))
        /\ UNCHANGED processed

Next ==
    \/ UploadPdf
    \/ Index
    \/ ListJson
    \/ GetPdfExcerpts
    \/ SaveValidation

Spec == Init /\ [][Next]_vars

-----------------------------------------------------------------------------
(* Properties.                                                             *)

\* the secured filename of the upload the state's request carries
UploadedName == secure_filename(request.args["file"].filename)

UploadAnswered(status) ==
    /\ request.handler = "upload_pdf"
    /\ response.status = status

\* C1: the extraction is a mock.  Whenever an upload is processed, the
\* document written to json/ equals, outside contract_number, date and
\* processed_date, the document written for the first processed upload of
\* the same secured filename, whatever the bytes of either PDF; and its
\* text and metadata.source_file are made of the secured filename alone.
MockIgnoresPdfBytes ==
    UploadAnswered(200) =>
        LET written == jsonDir[response.body.filename]
        IN  /\ UploadedName \in DOMAIN processed
            /\ json_loadable(written)
            /\ Placeholders(json_load(written)) = processed[UploadedName].doc
            /\ json_load(written).text =
                   <<"Full text extracted from PDF file: ", UploadedName>>
            /\ json_load(written).metadata.source_file = UploadedName

\* C1 witness: a processed upload whose bytes and client filename both
\* differ from those of the first processed upload of that secured filename
SameNameOtherBytesProcessed ==
    /\ UploadAnswered(200)
    /\ UploadedName \in DOMAIN processed
    /\ processed[UploadedName].pdf # request.args["file"].content.id
    /\ request.args["file"].filename # UploadedName

\* C2: save_validation keeps nothing.  Whatever the body and whatever the
\* answer (200 'Validation saved', 400 'Missing required fields' when one
\* of filename, field_path, status is absent or empty, or 500), uploads/,
\* json/ and the rest of the stored state are as before the request.
ValidationIsDiscarded ==
    [][request'.handler = "save_validation" =>
          LET payload == request'.args
              lacking == \E k \in ValidationKeys :
                            \/ k \notin DOMAIN payload.data
                            \/ payload.data[k] = JStr("")
          IN  /\ uploads' = uploads
              /\ jsonDir' = jsonDir
              /\ processed' = processed
              /\ response'.status \in {200, 400, 500}
              /\ (payload.kind = "object" /\ lacking) =>
                     /\ response'.status = 400
                     /\ response'.body.error = "Missing required fields"
              /\ response'.status = 200 =>
                     response'.body.message = "Validation saved"
              /\ payload.kind # "object" => response'.status = 500]_vars

\* C2 witness: a complete validation was answered 'Validation saved' while
\* json/ holds an extracted document
ValidationSavedAnswered ==
    /\ request.handler = "save_validation"
    /\ response.status = 200
    /\ response.body.message = "Validation saved"
    /\ \E n \in DOMAIN jsonDir : json_loadable(jsonDir[n])

\* C3: no rollback.  When opening or writing the JSON file fails, after the
\* PDF was saved, the answer is 500 with success false and 'Processing
\* failed', and the PDF is still in uploads/ with the bytes just uploaded.
FailureAfterSaveKeepsPdf ==
    (request.handler = "upload_pdf" /\ failed \in {"open", "dump"}) =>
        /\ response.status = 500
        /\ response.body.success = FALSE
        /\ response.body.error = "Processing failed: " \o OSErrorText
        /\ UploadedName \in DOMAIN uploads
        /\ uploads[UploadedName] = request.args["file"].content

\* C3 witness: writing the JSON file failed and the PDF stayed
JsonWriteFailedPdfKept ==
    /\ UploadAnswered(500)
    /\ failed = "dump"
    /\ UploadedName \in DOMAIN uploads

\* the extension test the claim C4 spells out: a dot, and 'pdf' in any case
\* after the last one
HasPdfExtension(fn) ==
    /\ \E i \in 1..Len(fn) : fn[i] = "."
    /\ LET ext == SubSeq(fn, LastIndex(fn, ".") + 1, Len(fn))
       IN  /\ Len(ext) = 3
           /\ ext[1] \in {"p", "P"}
           /\ ext[2] \in {"d", "D"}
           /\ ext[3] \in {"f", "F"}

\* C4: upload_pdf rejects in a fixed order without touching the folders:
\* no 'file' part is answered 400 'No file provided'; else an empty
\* filename 400 'No file selected'; else a filename without a 'pdf'
\* extension 400 'Only PDF files are allowed'; else a length above 16 MB
\* 400 'File too large'.
UploadRejectsInOrder ==
    [][request'.handler = "upload_pdf" =>
          LET files == request'.args
              rejected(text) ==
                  /\ response'.status = 400
                  /\ response'.body.error = text
                  /\ uploads' = uploads
                  /\ jsonDir' = jsonDir
          IN  IF "file" \notin DOMAIN files
              THEN rejected("No file provided")
              ELSE IF files["file"].filename = <<>>
              THEN rejected("No file selected")
              ELSE IF ~HasPdfExtension(files["file"].filename)
              THEN rejected("Only PDF files are allowed")
              ELSE IF files["file"].content.length > 16 * 1024 * 1024
              THEN rejected("File too large. Maximum size is 16MB")
              ELSE TRUE]_vars

\* the name the claim C5 gives the JSON file: n without its last '.'-suffix,
\* followed by '.json'
JsonNameOf(n) ==
    LET dots == {i \in 1..Len(n) : n[i] = "."}
        cut == IF dots = {} THEN Len(n)
               ELSE (CHOOSE i \in dots : \A j \in dots : j <= i) - 1
    IN  SubSeq(n, 1, cut) \o <<".", "j", "s", "o", "n">>

\* C5: after a success for the secured filename n, json/ holds under
\* JsonNameOf(n) a document process_pdf_to_json produces for n, the answer
\* names that file, and uploads/ no longer holds n when the removal
\* succeeded; a failed removal is swallowed: the answer is still a success.
UploadSuccessLeavesJson ==
    /\ UploadAnswered(200) =>
          /\ response.body.success = TRUE
          /\ response.body.filename = JsonNameOf(UploadedName)
          /\ JsonNameOf(UploadedName) \in DOMAIN jsonDir
          /\ \E u \in Uuid4s, t1 \in 0..MaxClock, t2 \in 0..MaxClock :
                jsonDir[JsonNameOf(UploadedName)] =
                    json_dump(process_pdf_to_json(
                        path_join(UPLOAD_FOLDER, UploadedName), UploadedName,
                        [disk |-> DiskOf(Put(uploads, UploadedName,
                                             request.args["file"].content)),
                         uuid4 |-> u, now1 |-> t1, now2 |-> t2]))
          /\ failed = "none" => UploadedName \notin DOMAIN uploads
    /\ (request.handler = "upload_pdf" /\ failed = "remove") =>
          /\ response.status = 200
          /\ response.body.success = TRUE

\* C5 witness: a success whose PDF was removed from uploads/
UploadSucceededAndCleaned ==
    /\ UploadAnswered(200)
    /\ failed = "none"
    /\ UploadedName \notin DOMAIN uploads
    /\ response.body.filename \in DOMAIN jsonDir

\* the names of a folder that end with '.json'
DotJsonNames(dir) ==
    {n \in DOMAIN dir :
        /\ Len(n) >= 5
        /\ SubSeq(n, Len(n) - 4, Len(n)) = <<".", "j", "s", "o", "n">>}

\* C6: no request takes a name out of json/; list_json and index report
\* exactly the names of json/ ending with '.json', a stat failure included;
\* so every filename a successful upload returned is in 'files' of every
\* later /api/list-json answer.
ListedJsonOnlyGrows ==
    [][/\ DOMAIN jsonDir \subseteq DOMAIN jsonDir'
       /\ request'.handler = "list_json" =>
             /\ response'.status = 200
             /\ response'.body.files = DotJsonNames(jsonDir')
             /\ \A n \in DOMAIN processed :
                    processed[n].json \in response'.body.files
       /\ request'.handler = "index" =>
             response'.body.json_files = DotJsonNames(jsonDir')
       /\ (request'.handler = "upload_pdf" /\ response'.status = 200) =>
             \E n \in DOMAIN processed' :
                 /\ n = secure_filename(request'.args["file"].filename)
                 /\ processed'[n].json = response'.body.filename]_vars

\* C6 witness: a listing, made while os.stat failed, that carries the
\* filename an earlier upload returned and leaves out the other file
ListingCarriesReturnedName ==
    /\ request.handler = "list_json"
    /\ failed = "stat"
    /\ processed # EmptyDir
    /\ \A n \in DOMAIN processed : processed[n].json \in response.body.files
    /\ response.body.files # DOMAIN jsonDir

\* C7: a get_pdf_excerpts request ends in one answer and changes no file:
\* 404 'JSON file not found' when the JSON path does not exist, whatever
\* the PDF; 404 'PDF file not found' only when the JSON exists and the PDF
\* does not; the extractor runs only with both present; every exception on
\* the way (opening or parsing the JSON, the extractor) becomes 500 'Failed
\* to extract excerpts'; otherwise 200 with the excerpts.
ExcerptsAnswerOrError ==
    [][request'.handler = "get_pdf_excerpts" =>
          LET fn == secure_filename(request'.args)
              has_json == path_exists(JSON_FOLDER, jsonDir,
                                      Replace(fn, DotPdf, DotJson))
              has_pdf == path_exists(UPLOAD_FOLDER, uploads, fn)
          IN  /\ uploads' = uploads
              /\ jsonDir' = jsonDir
              /\ response'.status \in {200, 404, 500}
              /\ ~has_json =>
                    /\ response'.status = 404
                    /\ response'.body.error = "JSON file not found"
              /\ (has_json /\ response'.status = 404) =>
                    /\ response'.body.error = "PDF file not found"
                    /\ ~has_pdf
              /\ (response'.status = 200 \/ failed' = "extract") =>
                    has_json /\ has_pdf
              /\ failed' # "none" =>
                    /\ response'.status = 500
                    /\ response'.body.error \in
                         {"Failed to extract excerpts: " \o text :
                             text \in {"[Errno 21] Is a directory: 'json/'",
                                       "[Errno 13] Permission denied",
                                       "Expecting value: line 1 column 1 (char 0)",
                                       "extract_pdf_excerpts raised"}}
              /\ response'.status = 200 =>
                    /\ response'.body.success = TRUE
                    /\ response'.body.filename = fn
                    /\ response'.body.excerpts =
                         extract_pdf_excerpts(path_join(UPLOAD_FOLDER, fn),
                             json_load(jsonDir[Replace(fn, DotPdf, DotJson)]))
              /\ response'.status = 500 => failed' # "none"]_vars

\* C7 witness: both files were there, the extractor raised, the answer was
\* the 500
ExtractorRaisedAnswered500 ==
    /\ request.handler = "get_pdf_excerpts"
    /\ failed = "extract"
    /\ response.status = 500
    /\ secure_filename(request.args) \in DOMAIN uploads

====
